---------------------------- MODULE Spec2Model ----------------------------
(***************************************************************************)
(* Model of edx_solutions_api_integration/users/serializers.py:            *)
(* the dynamic field selection of DynamicFieldsModelSerializer.__init__    *)
(* and the method fields of UserSerializer.                                *)
(*                                                                         *)
(* Python values are tagged records: None, Str(s), Num(n), Dict(m). A      *)
(* Python str is a sequence of tokens; the token "," is the comma that     *)
(* str.split(',') and ','.join(...) work on, every other token is a run of *)
(* name characters, so <<"id", ",", "email">> is the text "id,email" and   *)
(* <<"id", "email">> is the text "idemail".                                *)
(***************************************************************************)
EXTENDS Integers, Sequences, FiniteSets, TLC

VARIABLES
    pc,         \* "new" before the modelled call, "done" after it
    cls,        \* the serializer class being used
    context,    \* self.context: a mapping whose keys may be absent
    fields,     \* the key set of self.fields
    db,         \* the relational records the serializer reads
    user,       \* the record being serialized
    ret         \* outcome of the modelled call

vars == <<pc, cls, context, fields, db, user, ret>>

---------------------------------------------------------------------------
(* Bounds *)

MaxFieldsLen == 3
MaxDefaultLen == 2
MaxAdditionalLen == 1
MaxSummaryLen == 5
MaxRoleRows == 2
MaxAnnotated == 3

---------------------------------------------------------------------------
(* Python values *)

None == [t |-> "None"]
Str(s) == [t |-> "str", v |-> s]

\* Python truthiness of None or a str: `if fields`, `not fields`
Truthy(x) == x # None /\ x # Str(<<>>)

\* dict.get(key, default)
Get(d, k, default) == IF k \in DOMAIN d THEN d[k] ELSE default

Comma == ","

JoinComma_Concat(a, b) == Str(a.v \o b.v)

\* sep.join([a, b]) with sep = ','
JoinComma(a, b) == Str(a.v \o <<Comma>> \o b.v)

RECURSIVE SplitSeq(_)
\* the list str.split(',') builds from the tokens of a str
SplitSeq(s) ==
    IF \A i \in 1..Len(s) : s[i] # Comma
    THEN <<s>>
    ELSE LET i == CHOOSE j \in 1..Len(s) :
                     s[j] = Comma /\ \A k \in 1..(j - 1) : s[k] # Comma
         IN <<SubSeq(s, 1, i - 1)>> \o SplitSeq(SubSeq(s, i + 1, Len(s)))

SplitComma_Whole(x) == <<x.v>>

\* fields.split(',')
SplitComma(x) == SplitSeq(x.v)

\* set(list)
SetOf(l) == {l[i] : i \in 1..Len(l)}

---------------------------------------------------------------------------
(* Declared fields *)

UserSerializerFields ==
    { <<"id">>, <<"email">>, <<"username">>, <<"first_name">>, <<"last_name">>,
      <<"created">>, <<"is_active">>, <<"profile_image">>, <<"city">>,
      <<"title">>, <<"country">>, <<"full_name">>, <<"is_staff">>,
      <<"last_login">>, <<"courses_enrolled">>, <<"organizations">>,
      <<"roles">>, <<"grades">> }

SimpleUserSerializerFields ==
    { <<"id">>, <<"email">>, <<"username">>, <<"first_name">>, <<"last_name">>,
      <<"created">>, <<"is_active">> }

Classes == {"UserSerializer", "SimpleUserSerializer"}

\* the fields the superclass __init__ leaves in self.fields
Declared(c) ==
    IF c = "UserSerializer" THEN UserSerializerFields ELSE SimpleUserSerializerFields

---------------------------------------------------------------------------
(* DynamicFieldsModelSerializer.__init__ *)

SelectedFields_DefaultFirst(ctx) ==
    LET qp == ctx["request"].query_params
    IN IF "default_fields" \in DOMAIN ctx
       THEN JoinComma(ctx["default_fields"], Get(qp, "additional_fields", Str(<<>>)))
       ELSE Get(qp, "fields", None)

\* lines 25-28: the selection string, or a falsy value when there is none
SelectedFields(ctx) ==
    LET qp == ctx["request"].query_params
        f == Get(qp, "fields", None)
    IN IF ~Truthy(f) /\ "default_fields" \in DOMAIN ctx
       THEN JoinComma(ctx["default_fields"], Get(qp, "additional_fields", Str(<<>>)))
       ELSE f

DynamicFields_NoGuard(existing, ctx) ==
    IF "request" \in DOMAIN ctx
    THEN LET f == SelectedFields(ctx)
             allowed == SetOf(SplitComma(IF f = None THEN Str(<<>>) ELSE f))
         IN existing \ (existing \ allowed)
    ELSE existing

\* lines 24-35: self.fields after __init__
DynamicFields(existing, ctx) ==
    IF "request" \in DOMAIN ctx
    THEN LET f == SelectedFields(ctx)
         IN IF Truthy(f)
            THEN LET allowed == SetOf(SplitComma(f))
                 IN existing \ (existing \ allowed)
            ELSE existing
    ELSE existing

---------------------------------------------------------------------------
(* Inputs of the field-selection specification *)

Tokens == {"id", "email", Comma}

RECURSIVE StrsUpTo(_)
StrsUpTo(n) ==
    IF n = 0 THEN {<<>>}
    ELSE LET shorter == StrsUpTo(n - 1)
         IN shorter \cup {Append(s, tk) : s \in shorter, tk \in Tokens}

\* a mapping with an optional key k drawn from vals
Optional(k, vals) == {<<>>} \cup {k :> v : v \in vals}

QueryParams ==
    {a @@ b : a \in Optional("fields", {Str(s) : s \in StrsUpTo(MaxFieldsLen)}),
              b \in Optional("additional_fields",
                             {Str(s) : s \in StrsUpTo(MaxAdditionalLen)})}

FieldContexts ==
    {r @@ d : r \in Optional("request", {[query_params |-> qp] : qp \in QueryParams}),
              d \in Optional("default_fields",
                             {Str(s) : s \in StrsUpTo(MaxDefaultLen)})}

NoDb == [roles |-> <<>>, gradebook |-> {}, enrollments |-> {}, profiles |-> {}]
NoUser == [username |-> "nobody"]
NoRet == [outcome |-> "none"]

InitFields ==
    /\ pc = "new"
    /\ cls \in Classes
    /\ context \in FieldContexts
    /\ fields = Declared(cls)
    /\ db = NoDb
    /\ user = NoUser
    /\ ret = NoRet

\* DynamicFieldsModelSerializer.__init__ after the superclass constructor
DynamicInit ==
    /\ pc = "new"
    /\ pc' = "done"
    /\ fields' = DynamicFields(fields, context)
    /\ UNCHANGED <<cls, context, db, user, ret>>

NextFields == DynamicInit

SpecFields == InitFields /\ [][NextFields]_vars

---------------------------------------------------------------------------
(* Properties of the field selection *)

HasRequest == "request" \in DOMAIN context
HasDefault == "default_fields" \in DOMAIN context
QueryParam(k, default) == Get(context["request"].query_params, k, default)

\* name n occurs in text s as a whole comma-separated item
Named(n, s) ==
    \E i \in 1..(Len(s) + 1) : \E j \in (i - 1)..Len(s) :
        /\ SubSeq(s, i, j) = n
        /\ \A k \in i..j : s[k] # Comma
        /\ (i = 1 \/ s[i - 1] = Comma)
        /\ (j = Len(s) \/ s[j + 1] = Comma)

NoSelection ==
    /\ HasRequest => "fields" \notin DOMAIN context["request"].query_params
    /\ ~HasDefault

\* C1: after __init__ the field set is a subset of the declared fields, and
\* it is the whole declared set when neither a `fields` parameter nor a
\* `default_fields` context entry is given.
C1_SubsetOfDeclared ==
    pc = "done" =>
        /\ fields \subseteq Declared(cls)
        /\ NoSelection => fields = Declared(cls)

C1_Witness ==
    /\ pc = "done"
    /\ HasRequest
    /\ NoSelection
    /\ QueryParam("additional_fields", None) = Str(<<"id">>)
    /\ fields = Declared(cls)

\* C2: with a non-empty `fields` parameter the field set is exactly the
\* declared fields named in its comma-separated items; names that are not
\* declared are ignored.
C2_FieldsIntersection ==
    (pc = "done" /\ HasRequest /\ Truthy(QueryParam("fields", None))) =>
        fields = {n \in Declared(cls) : Named(n, QueryParam("fields", None).v)}

C2_Witness ==
    /\ pc = "done"
    /\ HasRequest
    /\ QueryParam("fields", None) = Str(<<"id", Comma, "email">>)
    /\ fields = {<<"id">>, <<"email">>}

C2_WitnessUnknownOnly ==
    /\ pc = "done"
    /\ HasRequest
    /\ QueryParam("fields", None) = Str(<<"id", "email">>)
    /\ fields = {}

\* C9: with a request, no or an empty `fields` parameter, and
\* `default_fields` in the context, the field set is the declared fields
\* named in default_fields or in additional_fields (empty when absent).
C9_DefaultPlusAdditional ==
    (pc = "done" /\ HasRequest /\ ~Truthy(QueryParam("fields", None)) /\ HasDefault) =>
        fields = {n \in Declared(cls) :
                    \/ Named(n, context["default_fields"].v)
                    \/ Named(n, QueryParam("additional_fields", Str(<<>>)).v)}

C9_Witness ==
    /\ pc = "done"
    /\ HasRequest
    /\ QueryParam("fields", None) = Str(<<>>)
    /\ HasDefault
    /\ context["default_fields"] = Str(<<"id">>)
    /\ QueryParam("additional_fields", None) = Str(<<"email">>)
    /\ fields = {<<"id">>, <<"email">>}

\* the context with only the request and its `fields` parameter
OnlyFieldsParam ==
    "request" :> [query_params |-> ("fields" :> QueryParam("fields", None))]

\* the context without the `additional_fields` parameter
WithoutAdditional ==
    LET qp == context["request"].query_params
        rest == [k \in DOMAIN qp \ {"additional_fields"} |-> qp[k]]
    IN [k \in DOMAIN context |->
            IF k = "request" THEN [query_params |-> rest] ELSE context[k]]

\* C10: a non-empty `fields` parameter decides the result whatever
\* default_fields and additional_fields are; additional_fields matters only
\* when `fields` is absent or empty and default_fields is in the context;
\* without a request nothing is dropped.
C10_FieldsPrecedence ==
    pc = "done" =>
        /\ (HasRequest /\ Truthy(QueryParam("fields", None))) =>
               fields = DynamicFields(Declared(cls), OnlyFieldsParam)
        /\ (HasRequest /\ ~(~Truthy(QueryParam("fields", None)) /\ HasDefault)) =>
               fields = DynamicFields(Declared(cls), WithoutAdditional)
        /\ ~HasRequest => fields = Declared(cls)

C10_Witness ==
    /\ pc = "done"
    /\ HasRequest
    /\ QueryParam("fields", None) = Str(<<"id">>)
    /\ HasDefault
    /\ context["default_fields"] = Str(<<"email">>)
    /\ QueryParam("additional_fields", None) = Str(<<"email">>)
    /\ fields = {<<"id">>}

---------------------------------------------------------------------------
(* Outcomes of a call, and the exceptions the code names *)

Return(v) == [outcome |-> "return", value |-> v]
Raise(e) == [outcome |-> "raise", exc |-> e]

\* exception classes that are ObjectDoesNotExist or a subclass of it
IsObjectDoesNotExist(e) ==
    e \in {"ObjectDoesNotExist", "DoesNotExist", "RelatedObjectDoesNotExist"}

Num(n) == [t |-> "num", n |-> n]
Dict(m) == [t |-> "dict", m |-> m]

Users == {"alice", "bob"}
Courses == {"c1", "c2"}

---------------------------------------------------------------------------
(* json.loads on the stored grade_summary                                  *)
(* A stored text is a sequence of JSON tokens: braces, colon and two       *)
(* string literals.  Objects of the modelled grammar hold at most one      *)
(* member.                                                                 *)

LBrace == "{"
RBrace == "}"
Colon == ":"
SectionBreakdown == "section_breakdown"
OtherKey == "other"
JsonStrings == {SectionBreakdown, OtherKey}
JsonTokens == {LBrace, RBrace, Colon} \cup JsonStrings

ParseFail == [ok |-> FALSE]
Parsed(v, n) == [ok |-> TRUE, val |-> v, next |-> n]

RECURSIVE ParseValue(_, _)
\* one JSON value starting at token i of s
ParseValue(s, i) ==
    IF i > Len(s) THEN ParseFail
    ELSE IF s[i] \in JsonStrings THEN Parsed(Str(<<s[i]>>), i + 1)
    ELSE IF s[i] # LBrace THEN ParseFail
    ELSE IF i + 1 <= Len(s) /\ s[i + 1] = RBrace THEN Parsed(Dict(<<>>), i + 2)
    ELSE IF ~(i + 2 <= Len(s) /\ s[i + 1] \in JsonStrings /\ s[i + 2] = Colon)
         THEN ParseFail
    ELSE LET v == ParseValue(s, i + 3)
         IN IF ~v.ok THEN ParseFail
            ELSE IF v.next <= Len(s) /\ s[v.next] = RBrace
                 THEN Parsed(Dict(s[i + 1] :> v.val), v.next + 1)
                 ELSE ParseFail

\* json.loads(text): the value, or ValueError on malformed or trailing text
json_loads(text) ==
    LET p == ParseValue(text, 1)
    IN IF p.ok /\ p.next = Len(text) + 1 THEN Return(p.val) ELSE Raise("ValueError")

Contains_NonEmpty(key, c) ==
    IF c.t = "dict" THEN Return(DOMAIN c.m # {})
    ELSE IF c.t = "str" THEN Return(c.v = <<key>>)
    ELSE Raise("TypeError")

\* `key in container` for a parsed container
Contains(key, c) ==
    IF c.t = "dict" THEN Return(key \in DOMAIN c.m)
    ELSE IF c.t = "str" THEN Return(c.v = <<key>>)
    ELSE Raise("TypeError")

\* container[key] once `key in container` was true
GetItem(c, key) ==
    IF c.t = "dict"
    THEN IF key \in DOMAIN c.m THEN Return(c.m[key]) ELSE Raise("KeyError")
    ELSE Raise("TypeError")

---------------------------------------------------------------------------
(* UserSerializer.get_user_grades *)

\* StudentGradebook.objects.get(user=user, course_id=course_id)
GradebookGet(table, usr, course_id) ==
    LET found == {r \in table : r.user = usr.username /\ r.course_id = course_id}
    IN IF found = {} THEN Raise("DoesNotExist")
       ELSE IF Cardinality(found) > 1 THEN Raise("MultipleObjectsReturned")
       ELSE Return(CHOOSE r \in found : TRUE)

Grades(g, p, sb) == [grade |-> g, proforma_grade |-> p, section_breakdown |-> sb]

GradesCaught_OnlyValueError(e) == e = "ValueError"

GradesCaught_OnlyDoesNotExist(e) == IsObjectDoesNotExist(e)

\* whether `except (ObjectDoesNotExist, ValueError)` catches e
GradesCaught(e) == IsObjectDoesNotExist(e) \/ e = "ValueError"

\* lines 84-89 for a gradebook row that was found
GradesFromRow(gb) ==
    LET summary == json_loads(gb.grade_summary)
    IN IF summary.outcome = "raise"
       THEN IF GradesCaught(summary.exc)
            THEN Return(Grades(gb.grade, gb.proforma_grade, None))
            ELSE summary
       ELSE LET has == Contains(SectionBreakdown, summary.value)
            IN IF has.outcome = "raise" THEN has
               ELSE IF ~has.value
                    THEN Return(Grades(gb.grade, gb.proforma_grade, None))
                    ELSE LET sb == GetItem(summary.value, SectionBreakdown)
                         IN IF sb.outcome = "raise" THEN sb
                            ELSE Return(Grades(gb.grade, gb.proforma_grade, sb.value))

get_user_grades(ctx, usr, table) ==
    IF "course_id" \notin DOMAIN ctx THEN Return(Grades(None, None, None))
    ELSE LET got == GradebookGet(table, usr, ctx["course_id"])
         IN IF got.outcome = "raise"
            THEN IF GradesCaught(got.exc)
                 THEN Return(Grades(None, None, None))
                 ELSE got
            ELSE GradesFromRow(got.value)

---------------------------------------------------------------------------
(* Inputs of the grades specification *)

RECURSIVE TextsUpTo(_)
TextsUpTo(n) ==
    IF n = 0 THEN {<<>>}
    ELSE LET shorter == TextsUpTo(n - 1)
         IN shorter \cup {Append(s, tk) : s \in shorter, tk \in JsonTokens}

GradeValues == {Num(50), Num(90)}
ProformaValues == {Num(60)}

GradebookRows ==
    [user : Users, course_id : Courses, grade : GradeValues,
     proforma_grade : ProformaValues, grade_summary : TextsUpTo(MaxSummaryLen)]

\* a row of another user that is always allowed beside the drawn one
OtherUsersRow ==
    [user |-> "bob", course_id |-> "c1", grade |-> Num(10),
     proforma_grade |-> Num(20),
     grade_summary |-> <<LBrace, SectionBreakdown, Colon, SectionBreakdown, RBrace>>]

\* (user, course_id) is unique in a gradebook table
UniqueKeys(table) ==
    \A r1, r2 \in table :
        (r1.user = r2.user /\ r1.course_id = r2.course_id) => r1 = r2

CourseContexts == Optional("course_id", Courses)

InitGrades ==
    /\ pc = "new"
    /\ cls = "UserSerializer"
    /\ context \in CourseContexts
    /\ fields = Declared(cls)
    /\ \E rows \in {{}} \cup {{r} : r \in GradebookRows} :
       \E others \in SUBSET {OtherUsersRow} :
          /\ UniqueKeys(rows \cup others)
          /\ db = [NoDb EXCEPT !.gradebook = rows \cup others]
    /\ user = [username |-> "alice"]
    /\ ret = NoRet

\* the serializer evaluates the `grades` method field
GetUserGrades ==
    /\ pc = "new"
    /\ pc' = "done"
    /\ ret' = get_user_grades(context, user, db.gradebook)
    /\ UNCHANGED <<cls, context, fields, db, user>>

NextGrades == GetUserGrades

SpecGrades == InitGrades /\ [][NextGrades]_vars

---------------------------------------------------------------------------
(* Properties of get_user_grades *)

RECURSIVE JsonValues(_)
\* the JSON texts of nesting depth <= d over JsonTokens, each with the value
\* it denotes
JsonValues(d) ==
    IF d = 0
    THEN {[text |-> <<str>>, val |-> Str(<<str>>)] : str \in JsonStrings}
         \cup {[text |-> <<LBrace, RBrace>>, val |-> Dict(<<>>)]}
    ELSE LET inner == JsonValues(d - 1)
         IN inner \cup
            {[text |-> <<LBrace, k, Colon>> \o p.text \o <<RBrace>>,
              val |-> Dict(k :> p.val)] : k \in JsonStrings, p \in inner}

AllJson == JsonValues(MaxSummaryLen)

IsJson(text) == \E p \in AllJson : p.text = text
IsJsonObject(text) == \E p \in AllJson : p.text = text /\ p.val.t = "dict"
JsonValueOf(text) == (CHOOSE p \in AllJson : p.text = text).val

HasCourse == "course_id" \in DOMAIN context

\* the gradebook rows of the serialized user for the course of the context
UserCourseRows ==
    {r \in db.gradebook :
        r.user = user.username /\ r.course_id = context["course_id"]}

TheRow == CHOOSE r \in UserCourseRows : TRUE

\* C3 as stated: a row whose grade_summary is not JSON gives all-null grade
\* fields and no error.
C3_MalformedAllNull ==
    (pc = "done" /\ HasCourse /\ UserCourseRows # {}
        /\ ~IsJson(TheRow.grade_summary)) =>
        ret = Return(Grades(None, None, None))

\* C3 amended: a row whose grade_summary is not JSON gives the row's grade
\* and proforma_grade with a null section_breakdown, and no error.
C3_MalformedKeepsGrades ==
    (pc = "done" /\ HasCourse /\ UserCourseRows # {}
        /\ ~IsJson(TheRow.grade_summary)) =>
        ret = Return(Grades(TheRow.grade, TheRow.proforma_grade, None))

C3_Witness ==
    /\ pc = "done"
    /\ HasCourse
    /\ UserCourseRows # {}
    /\ TheRow.grade_summary = <<LBrace, SectionBreakdown, Colon, OtherKey>>
    /\ ret = Return(Grades(Num(90), Num(60), None))

\* C5: with a course in the context and no gradebook row for (user, course)
\* the result is all-null grade fields and no error.
C5_NoRowAllNull ==
    (pc = "done" /\ HasCourse /\ UserCourseRows = {}) =>
        ret = Return(Grades(None, None, None))

C5_Witness ==
    /\ pc = "done"
    /\ HasCourse
    /\ UserCourseRows = {}
    /\ \E r \in db.gradebook : r.user = user.username
    /\ \E r \in db.gradebook : r.user # user.username /\ r.course_id = context["course_id"]
    /\ ret = Return(Grades(None, None, None))

\* C6: a row whose grade_summary is a JSON object gives the row's grade and
\* proforma_grade, and section_breakdown is the object's "section_breakdown"
\* value when the key is present and null when it is absent.
C6_ObjectSummary ==
    (pc = "done" /\ HasCourse /\ UserCourseRows # {}
        /\ IsJsonObject(TheRow.grade_summary)) =>
        LET obj == JsonValueOf(TheRow.grade_summary).m
        IN ret = Return(Grades(TheRow.grade, TheRow.proforma_grade,
                               IF SectionBreakdown \in DOMAIN obj
                               THEN obj[SectionBreakdown] ELSE None))

C6_Witness ==
    /\ pc = "done"
    /\ HasCourse
    /\ UserCourseRows # {}
    /\ TheRow.grade_summary = <<LBrace, OtherKey, Colon, SectionBreakdown, RBrace>>
    /\ ret = Return(Grades(Num(50), Num(60), None))

C6_WitnessKeyPresent ==
    /\ pc = "done"
    /\ HasCourse
    /\ UserCourseRows # {}
    /\ TheRow.grade_summary = <<LBrace, SectionBreakdown, Colon, OtherKey, RBrace>>
    /\ ret = Return(Grades(Num(50), Num(60), Str(<<OtherKey>>)))

---------------------------------------------------------------------------
(* UserSerializer.get_user_roles                                           *)
(* A queryset is the sequence of its rows.                                 *)

\* queryset.filter(user=user)
FilterUser(rows, usr) == SelectSeq(rows, LAMBDA r : r.user = usr.username)

\* queryset.filter(course_id=course_id)
FilterCourse(rows, course_id) == SelectSeq(rows, LAMBDA r : r.course_id = course_id)

\* queryset.values_list('role', flat=True)
ValuesListRole(rows) == [i \in 1..Len(rows) |-> rows[i].role]

Distinct_Missing(l) == l

\* .distinct(): each value once
Distinct(l) ==
    LET keep == {i \in 1..Len(l) : \A j \in 1..(i - 1) : l[j] # l[i]}
        Nth(n) == CHOOSE i \in keep : Cardinality({j \in keep : j < i}) = n - 1
    IN [n \in 1..Cardinality(keep) |-> l[Nth(n)]]

get_user_roles(ctx, usr, table) ==
    LET queryset == FilterUser(table, usr)
        narrowed == IF "course_id" \in DOMAIN ctx
                    THEN FilterCourse(queryset, ctx["course_id"])
                    ELSE queryset
    IN Return(Distinct(ValuesListRole(narrowed)))

Orgs == {"o1", "o2"}
RoleNames == {"instructor", "staff"}

RoleRows == [user : Users, org : Orgs, course_id : Courses, role : RoleNames]

\* the tables of at most n distinct role-assignment rows
RECURSIVE RoleTables(_)
RoleTables(n) ==
    IF n = 0 THEN {<<>>}
    ELSE LET shorter == RoleTables(n - 1)
             Fresh(tb, r) == \A i \in 1..Len(tb) : tb[i] # r
         IN shorter \cup
            {Append(pr[1], pr[2]) :
                pr \in {q \in shorter \X RoleRows : Fresh(q[1], q[2])}}

InitRoles ==
    /\ pc = "new"
    /\ cls = "UserSerializer"
    /\ context \in CourseContexts
    /\ fields = Declared(cls)
    /\ \E tb \in RoleTables(MaxRoleRows) : db = [NoDb EXCEPT !.roles = tb]
    /\ user \in {[username |-> u] : u \in Users}
    /\ ret = NoRet

\* the serializer evaluates the `roles` method field
GetUserRoles ==
    /\ pc = "new"
    /\ pc' = "done"
    /\ ret' = get_user_roles(context, user, db.roles)
    /\ UNCHANGED <<cls, context, fields, db, user>>

NextRoles == GetUserRoles

SpecRoles == InitRoles /\ [][NextRoles]_vars

\* the role rows the claim speaks of
RowsInScope ==
    {i \in 1..Len(db.roles) :
        /\ db.roles[i].user = user.username
        /\ HasCourse => db.roles[i].course_id = context["course_id"]}

\* C7: get_user_roles returns exactly the role names assigned to the given
\* user (for the course of the context when there is one, across all
\* courses otherwise), each once.
C7_DistinctUserRoles ==
    pc = "done" =>
        /\ ret.outcome = "return"
        /\ SetOf(ret.value) = {db.roles[i].role : i \in RowsInScope}
        /\ \A i, j \in 1..Len(ret.value) : i # j => ret.value[i] # ret.value[j]

C7_Witness ==
    /\ pc = "done"
    /\ ~HasCourse
    /\ Len(db.roles) = 2
    /\ \A i \in 1..2 : db.roles[i].user = user.username /\ db.roles[i].role = "staff"
    /\ db.roles[1].course_id # db.roles[2].course_id
    /\ ret = Return(<<"staff">>)

C7_WitnessCourse ==
    /\ pc = "done"
    /\ HasCourse
    /\ Len(db.roles) = 2
    /\ \A i \in 1..2 : db.roles[i].user = user.username
    /\ db.roles[1].course_id = context["course_id"]
    /\ db.roles[2].course_id # context["course_id"]
    /\ db.roles[1].role # db.roles[2].role
    /\ ret = Return(<<db.roles[1].role>>)

---------------------------------------------------------------------------
(* UserSerializer.get_courses_enrolled *)

\* user.courseenrollment_set.all().count()
EnrollmentCount(usr, table) == Cardinality({e \in table : e.user = usr.username})

get_courses_enrolled_AlwaysCount(usr, table) == Return(EnrollmentCount(usr, table))

get_courses_enrolled(usr, table) ==
    IF "courses_enrolled" \in DOMAIN usr
    THEN Return(usr["courses_enrolled"])
    ELSE Return(EnrollmentCount(usr, table))

Enrollments == [user : Users, course_id : Courses]

InitEnrolled ==
    /\ pc = "new"
    /\ cls = "UserSerializer"
    /\ context = <<>>
    /\ fields = Declared(cls)
    /\ \E es \in SUBSET Enrollments : db = [NoDb EXCEPT !.enrollments = es]
    /\ \E u \in Users : \E a \in Optional("courses_enrolled", 0..MaxAnnotated) :
          user = ("username" :> u) @@ a
    /\ ret = NoRet

\* the serializer evaluates the `courses_enrolled` method field
GetCoursesEnrolled ==
    /\ pc = "new"
    /\ pc' = "done"
    /\ ret' = get_courses_enrolled(user, db.enrollments)
    /\ UNCHANGED <<cls, context, fields, db, user>>

NextEnrolled == GetCoursesEnrolled

SpecEnrolled == InitEnrolled /\ [][NextEnrolled]_vars

\* C8: get_courses_enrolled returns the attached courses_enrolled value when
\* one is attached, and otherwise the number of the user's enrollment rows.
C8_CoursesEnrolled ==
    pc = "done" =>
        IF "courses_enrolled" \in DOMAIN user
        THEN ret = Return(user["courses_enrolled"])
        ELSE ret = Return(Cardinality(
                        {c \in Courses :
                            [user |-> user["username"], course_id |-> c]
                                \in db.enrollments}))

C8_Witness ==
    /\ pc = "done"
    /\ "courses_enrolled" \notin DOMAIN user
    /\ user["username"] = "alice"
    /\ db.enrollments = {[user |-> "alice", course_id |-> "c1"],
                         [user |-> "alice", course_id |-> "c2"],
                         [user |-> "bob", course_id |-> "c1"]}
    /\ ret = Return(2)

C8_WitnessAttached ==
    /\ pc = "done"
    /\ "courses_enrolled" \in DOMAIN user
    /\ user["courses_enrolled"] = 3
    /\ EnrollmentCount(user, db.enrollments) = 1
    /\ ret = Return(3)

---------------------------------------------------------------------------
(* UserSerializer: the fields read through the profile relation *)

\* user.profile: the one-to-one related record, or RelatedObjectDoesNotExist
RelatedProfile(usr, profiles) ==
    LET found == {p \in profiles : p.user = usr["username"]}
    IN IF found = {} THEN Raise("RelatedObjectDoesNotExist")
       ELSE Return(CHOOSE p \in found : TRUE)

\* a field declared with source='profile.<attr>': the framework walks the
\* source attributes and yields None when a step raises ObjectDoesNotExist
SourceProfileAttribute(usr, profiles, attr) ==
    LET p == RelatedProfile(usr, profiles)
    IN IF p.outcome = "raise"
       THEN IF IsObjectDoesNotExist(p.exc) THEN Return(None) ELSE p
       ELSE Return(p.value[attr])

\* utils.get_profile_image_urls_by_username(username, uploaded_at): the
\* image metadata for that username and timestamp
get_profile_image_urls_by_username(username, uploaded_at) ==
    [t |-> "profile_image_urls", username |-> username, uploaded_at |-> uploaded_at]

get_profile_image_NoTry(usr, profiles) ==
    LET p == RelatedProfile(usr, profiles)
    IN IF p.outcome = "raise" THEN p
       ELSE Return(get_profile_image_urls_by_username(
                       usr["username"], p.value.profile_image_uploaded_at))

get_profile_image(usr, profiles) ==
    LET p == RelatedProfile(usr, profiles)
        profile_image_uploaded_at ==
            IF p.outcome = "raise" THEN None ELSE p.value.profile_image_uploaded_at
    IN IF p.outcome = "raise" /\ ~IsObjectDoesNotExist(p.exc) THEN p
       ELSE Return(get_profile_image_urls_by_username(
                       usr["username"], profile_image_uploaded_at))

\* the profile-backed part of the output record; the first error propagates
ProfileRepresentation(usr, profiles) ==
    LET image == get_profile_image(usr, profiles)
        city == SourceProfileAttribute(usr, profiles, "city")
        title == SourceProfileAttribute(usr, profiles, "title")
        country == SourceProfileAttribute(usr, profiles, "country")
        full_name == SourceProfileAttribute(usr, profiles, "name")
        parts == <<image, city, title, country, full_name>>
    IN IF \E i \in 1..5 : parts[i].outcome = "raise"
       THEN parts[CHOOSE i \in 1..5 :
                     /\ parts[i].outcome = "raise"
                     /\ \A j \in 1..(i - 1) : parts[j].outcome = "return"]
       ELSE Return([profile_image |-> image.value, city |-> city.value,
                    title |-> title.value, country |-> country.value,
                    full_name |-> full_name.value])

Profiles ==
    [user : {"alice"},
     city : {None, Str(<<"Lahore">>)},
     title : {None, Str(<<"Dr">>)},
     country : {None, Str(<<"PK">>)},
     name : {Str(<<>>), Str(<<"Alice">>)},
     profile_image_uploaded_at : {None, Num(1)}]

OtherUsersProfile ==
    [user |-> "bob", city |-> Str(<<"Karachi">>), title |-> Str(<<"Mr">>),
     country |-> Str(<<"PK">>), name |-> Str(<<"Bob">>),
     profile_image_uploaded_at |-> Num(2)]

InitProfile ==
    /\ pc = "new"
    /\ cls = "UserSerializer"
    /\ context = <<>>
    /\ fields = Declared(cls)
    /\ \E own \in {{}} \cup {{p} : p \in Profiles} :
       \E others \in SUBSET {OtherUsersProfile} :
          db = [NoDb EXCEPT !.profiles = own \cup others]
    /\ user = [username |-> "alice"]
    /\ ret = NoRet

\* the serializer builds the profile-backed fields of the output record
ToRepresentation ==
    /\ pc = "new"
    /\ pc' = "done"
    /\ ret' = ProfileRepresentation(user, db.profiles)
    /\ UNCHANGED <<cls, context, fields, db, user>>

NextProfile == ToRepresentation

SpecProfile == InitProfile /\ [][NextProfile]_vars

NoProfile == \A p \in db.profiles : p.user # user["username"]

---------------------------------------------------------------------------
(* Every operation on every input *)

Init == InitFields \/ InitGrades \/ InitRoles \/ InitEnrolled \/ InitProfile

Next ==
    \/ DynamicInit
    \/ GetUserGrades
    \/ GetUserRoles
    \/ GetCoursesEnrolled
    \/ ToRepresentation

Spec == Init /\ [][Next]_vars

=============================================================================
